---------------------------- MODULE Spec2Model ----------------------------
(***************************************************************************)
(* A model of anthropicautodocstrings/main.py: the directory walk, the     *)
(* per-file rewrite of function doc comments, and the bounded retry of     *)
(* the text-generation call.                                               *)
(*                                                                         *)
(* Text is a sequence of one-character strings, so that strip, replace,    *)
(* startswith/endswith and slicing are computed as Python computes them.   *)
(* A path is a sequence of names plus a trailing-separator flag.  A        *)
(* source file is held as its syntax tree: a heap of nodes, node 0 being   *)
(* the module, whose bodies refer to child nodes by id (the code mutates   *)
(* nodes through references, and a heap keeps those references stable).   *)
(***************************************************************************)
EXTENDS Integers, Sequences, FiniteSets, Bags, TLC

(***************************************************************************)
(* Text helpers (Python str methods).                                      *)
(***************************************************************************)
Range(s) == { s[i] : i \in 1..Len(s) }

\* The characters str.strip() removes: those for which str.isspace() holds.
\* U+000B, U+001C..U+001F, U+0085 and U+00A0 are written as themselves; a
\* character above U+00FF cannot be written in a TLA+ string and "uXXXX"
\* stands for it.
Whitespace ==
    { " ", "\t", "\n", "\r", "\f", "", "", "", "", "",
      "", " ",
      "u1680", "u2000", "u2001", "u2002", "u2003", "u2004",
      "u2005", "u2006", "u2007", "u2008", "u2009", "u200a",
      "u2028", "u2029", "u202f", "u205f", "u3000" }

StartsWith(s, p) == Len(p) <= Len(s) /\ SubSeq(s, 1, Len(p)) = p

EndsWith(s, p) == Len(p) <= Len(s) /\ SubSeq(s, Len(s) - Len(p) + 1, Len(s)) = p

RECURSIVE LStrip(_)
LStrip(s) == IF s # << >> /\ Head(s) \in Whitespace THEN LStrip(Tail(s)) ELSE s

RECURSIVE RStrip(_)
RStrip(s) ==
    IF s # << >> /\ s[Len(s)] \in Whitespace
    THEN RStrip(SubSeq(s, 1, Len(s) - 1))
    ELSE s

Strip(s) == RStrip(LStrip(s))

\* str.replace(p, ""): leftmost, non-overlapping occurrences removed.
RECURSIVE Remove(_, _)
Remove(s, p) ==
    IF s = << >> THEN << >>
    ELSE IF StartsWith(s, p) THEN Remove(SubSeq(s, Len(p) + 1, Len(s)), p)
    ELSE << Head(s) >> \o Remove(Tail(s), p)

\* s[3:-3]
Slice3(s) == SubSeq(s, 4, Len(s) - 3)

\* str.split(sep) for a one-character separator: always at least one field.
RECURSIVE Split(_, _)
Split(s, sep) ==
    IF \E i \in 1..Len(s) : s[i] = sep
    THEN LET i == CHOOSE k \in 1..Len(s) :
                      s[k] = sep /\ \A j \in 1..(k - 1) : s[j] # sep
         IN  << SubSeq(s, 1, i - 1) >> \o Split(SubSeq(s, i + 1, Len(s)), sep)
    ELSE << s >>

DQ3 == << "\"", "\"", "\"" >>
SQ3 == << "'", "'", "'" >>
\* The backquote character cannot be written in a TLA+ string: "bq" stands for it.
BQ == "bq"

FENCE == << BQ, BQ, BQ >>
FENCE_PY == FENCE \o << "p", "y", "t", "h", "o", "n" >>
NL == << "\n" >>

(***************************************************************************)
(* generate_docstring, lines 112-124: what is returned for a response.     *)
(* A response is "none" (message.content empty) or a text.                 *)
(***************************************************************************)
CleanContent(text) ==
    LET c1 == Strip(text)
        c2 == Strip(Remove(Remove(c1, FENCE_PY), FENCE))
    IN  IF StartsWith(c2, DQ3) /\ EndsWith(c2, DQ3) THEN Strip(Slice3(c2))
        ELSE IF StartsWith(c2, SQ3) /\ EndsWith(c2, SQ3) THEN Strip(Slice3(c2))
        ELSE c2

FinalDocstring(text) == DQ3 \o NL \o CleanContent(text) \o NL \o DQ3


(***************************************************************************)
(* Names, paths and the directory tree on disk.                            *)
(***************************************************************************)
PY == << ".", "p", "y" >>
N_proj == << "p", "r", "o", "j" >>
N_venv == << "v", "e", "n", "v" >>
N_lib == << "l", "i", "b" >>
N_a_py == << "a" >> \o PY
N_b_py == << "b" >> \o PY
N_notes == << "n", "o", "t", "e", "s", ".", "t", "x", "t" >>
N_gone == << "g", "o", "n", "e" >> \o PY

\* Depth of the directory chain below the root directory.
MaxDepth == 2

\* The directory at level i is proj/venv/lib/venv/...; it holds one source
\* file (a.py at even levels, b.py at odd ones) and the next level's
\* directory; the root also holds a file that is no Python source.
DirName(i) == IF i = 0 THEN N_proj ELSE IF i % 2 = 1 THEN N_venv ELSE N_lib

DirAt(i) == [ j \in 1..(i + 1) |-> DirName(j - 1) ]

PyName(i) == IF i % 2 = 0 THEN N_a_py ELSE N_b_py

Dirs == { DirAt(i) : i \in 0..MaxDepth }

PyFiles == { Append(DirAt(i), PyName(i)) : i \in 0..MaxDepth }

NotesFile == Append(DirAt(0), N_notes)

Files == PyFiles \cup { NotesFile }

\* A path string: its components, and whether it ends with a separator.
Path(parts, slash) == [ parts |-> parts, slash |-> slash ]

\* os.path.isfile / os.path.isdir / os.listdir on the tree above.
isfile(p) == p.parts \in Files /\ ~p.slash

isdir(p) == p.parts \in Dirs

listdir(p) ==
    { q[Len(q)] : q \in { r \in Files \cup Dirs :
                            Len(r) = Len(p.parts) + 1
                            /\ SubSeq(r, 1, Len(p.parts)) = p.parts } }

\* os.path.join(directory, name)
join(p, name) == Path(Append(p.parts, name), FALSE)

\* os.path.basename: the text after the last separator.
basename(p) == IF p.slash \/ p.parts = << >> THEN << >> ELSE p.parts[Len(p.parts)]

\* str.endswith(".py") on a path string.
endswith_py(p) == ~p.slash /\ p.parts # << >> /\ EndsWith(p.parts[Len(p.parts)], PY)

\* _extract_exclude_list, line 314.
RECURSIVE StripNonEmpty(_)
StripNonEmpty(fields) ==
    IF fields = << >> THEN << >>
    ELSE (IF Strip(Head(fields)) # << >> THEN << Strip(Head(fields)) >> ELSE << >>)
         \o StripNonEmpty(Tail(fields))

_extract_exclude_list(exclude) == StripNonEmpty(Split(exclude, ","))

\* x in list
In(x, list) == x \in Range(list)

(***************************************************************************)
(* Syntax trees.  A tree is a sequence of nodes; node 1 is the module.  A  *)
(* body item is a doc comment (an expression statement holding a string    *)
(* constant), any other statement, or a reference to a child definition.   *)
(***************************************************************************)
Doc(text) == [ k |-> "doc", text |-> text, id |-> 0 ]
Stmt == [ k |-> "stmt", text |-> << >>, id |-> 0 ]
Ref(n) == [ k |-> "ref", text |-> << >>, id |-> n ]

Module(body) == [ type |-> "Module", name |-> "", body |-> body ]
FunctionDef(name, body) == [ type |-> "FunctionDef", name |-> name, body |-> body ]
AsyncFunctionDef(name, body) == [ type |-> "AsyncFunctionDef", name |-> name, body |-> body ]
ClassDef(name, body) == [ type |-> "ClassDef", name |-> name, body |-> body ]

\* File contents: a text that parses (held as its tree), the empty text, or
\* a text the parser rejects.
EmptyText == << >>
BadText == << [ type |-> "SyntaxError", name |-> "", body |-> << >> ] >>

OldDoc == << "o", "l", "d" >>

T_doc == << Module(<< Ref(2) >>), FunctionDef("f", << Doc(OldDoc), Stmt >>) >>
T_nodoc == << Module(<< Ref(2) >>), FunctionDef("f", << Stmt >>) >>
T_onlydoc == << Module(<< Stmt, Ref(2) >>), FunctionDef("f", << Doc(OldDoc) >>) >>
T_async == << Module(<< Ref(2) >>), AsyncFunctionDef("g", << Doc(OldDoc), Stmt >>) >>
T_class == << Module(<< Ref(2) >>),
              ClassDef("C", << Doc(OldDoc), Ref(3), Ref(4) >>),
              FunctionDef("__init__", << Doc(OldDoc), Stmt >>),
              FunctionDef("m", << Stmt >>) >>
T_nested == << Module(<< Ref(2) >>),
               FunctionDef("outer", << Doc(OldDoc), Ref(3), Stmt >>),
               FunctionDef("inner", << Stmt >>) >>
T_ctor_nested == << Module(<< Ref(2) >>),
                    FunctionDef("__init__", << Ref(3), Stmt >>),
                    FunctionDef("helper", << Stmt >>) >>
T_nofunc == << Module(<< Stmt >>) >>


\* ast.parse succeeds on the text.
Parses(text) == text # << >> /\ text[1].type = "Module"

\* ast.iter_child_nodes restricted to definitions, in body order.
RECURSIVE ChildIds(_)
ChildIds(body) ==
    IF body = << >> THEN << >>
    ELSE (IF Head(body).k = "ref" THEN << Head(body).id >> ELSE << >>)
         \o ChildIds(Tail(body))

\* ast.walk: breadth first from the module.
RECURSIVE Walk(_, _)
Walk(t, queue) ==
    IF queue = << >> THEN << >>
    ELSE << Head(queue) >> \o Walk(t, Tail(queue) \o ChildIds(t[Head(queue)].body))

IsFunction(node) == node.type \in { "FunctionDef", "AsyncFunctionDef" }

\* Lines 168-172: the function nodes of the tree, in ast.walk order.
FunctionNodes(t) ==
    LET IsFn(n) == IsFunction(t[n]) IN SelectSeq(Walk(t, << 1 >>), IsFn)

\* Lines 180-184.
has_docstring(node) == node.body # << >> /\ node.body[1].k = "doc"

\* The function and all it encloses, as one nested value.
RECURSIVE Expand(_, _)
Expand(t, n) ==
    [ type |-> t[n].type, name |-> t[n].name,
      body |-> [ i \in 1..Len(t[n].body) |->
                   IF t[n].body[i].k = "ref"
                   THEN Expand(t, t[n].body[i].id)
                   ELSE t[n].body[i] ] ]

\* astor.to_source followed by black.format_str accepts the tree: a
\* definition with no statement in its body does not parse back.
Formats(t) == \A n \in 1..Len(t) : t[n].type = "Module" \/ t[n].body # << >>


(***************************************************************************)
(* The run: its inputs, and the state of the one thread of control.        *)
(***************************************************************************)
max_retries == 5

BASE_DIR == << >>

VARIABLES
    entry,      \* the function the run starts in
    apiKey,     \* os.environ.get("ANTHROPIC_API_KEY"): set or not, and its value
    argv,       \* the arguments: input path, the two flags, the two exclude texts
    disk0,      \* the files' contents when the run starts
    disk,       \* the files' contents now
    pc,         \* where control is
    status,     \* "running", "returned", "exit" (SystemExit) or "raised"
    code,       \* the SystemExit code
    reason,     \* why the run ended early
    replace_existing_docstrings, skip_constructor_docstrings,
    exclude_directories, exclude_files,
    arg,        \* the path handed to the call being entered
    stack,      \* update_docstrings_in_directory frames: directory, entries left
    file,       \* update_docstrings_in_file: its file, flags, tree, nodes, position
    fReplace, fSkip, tree, nodes, idx,
    retries,    \* generate_docstring: the retry counter
    attempts,   \* text-generation calls made by this generate_docstring call
    message,    \* the answer of the latest text-generation call
    docstring,  \* what generate_docstring returned
    calls,      \* bag of update_docstrings_in_file calls (file, flags)
    apiLog,     \* the (file, node) pairs a text-generation call was made for
    phase       \* how far update_docstrings_in_file has come with each file:
                \* "idle", "read", "opened" (for writing) or "done" (returned)

inputs == << entry, apiKey, argv, disk0 >>
outcome == << status, code, reason >>
params == << replace_existing_docstrings, skip_constructor_docstrings,
             exclude_directories, exclude_files >>
callee == << arg, fReplace, fSkip, calls >>
fileVars == << file, tree, nodes, idx >>
genVars == << retries, attempts, message, docstring, apiLog >>
vars == << inputs, disk, pc, outcome, params, callee, stack, fileVars, genVars,
           phase >>

\* A test that the variable is set, whatever its value.
TruthyWhenSet(key) == key.set

\* not os.environ.get(...), lines 83 and 338: unset and empty are both falsy.
Truthy(key) == key.set /\ key.value # << >>

NoPath == Path(<< >>, FALSE)

NoMessage == [ kind |-> "none", text |-> << >> ]

Keys == { [ set |-> FALSE, value |-> << >> ],
          [ set |-> TRUE, value |-> << >> ],
          [ set |-> TRUE, value |-> << "k" >> ] }

RootPy == Append(DirAt(0), N_a_py)

\* The inputs of the directory runs.
WalkInputs ==
    { Path(DirAt(0), FALSE), Path(DirAt(0), TRUE), Path(DirAt(1), FALSE),
      Path(RootPy, FALSE), Path(Append(DirAt(1), N_b_py), FALSE),
      Path(NotesFile, FALSE), Path(Append(DirAt(0), N_gone), FALSE) }

ExcludeDirArgs ==
    { << >>, N_venv, N_proj, << " " >> \o N_lib \o << " ", ",", " " >> \o N_venv }

ExcludeFileArgs == { << >>, N_a_py, N_b_py \o << ",", " ", "," >> }

\* Every file holds one function: with a doc comment at odd levels, without
\* at even levels.
WalkDisk ==
    [ f \in Files |->
        IF f = NotesFile THEN BadText
        ELSE IF Len(f) % 2 = 0 THEN T_nodoc ELSE T_doc ]

\* The contents tried for the file of the single-file runs.
FileTexts ==
    { T_doc, T_nodoc, T_onlydoc, T_async, T_class, T_nested, T_ctor_nested,
      T_nofunc, EmptyText, BadText }

Entries ==
    { "run", "update_docstrings", "update_docstrings_in_directory",
      "update_docstrings_in_file", "generate_docstring" }

StartOf(e) == IF e = "run" THEN "main" ELSE e

InitWalk ==
    /\ entry \in { "run", "update_docstrings", "update_docstrings_in_directory" }
    /\ apiKey \in { k \in Keys : k.set => k.value # << >> }
    /\ \E i \in WalkInputs, r \in BOOLEAN, s \in BOOLEAN,
          xd \in ExcludeDirArgs, xf \in ExcludeFileArgs, h \in BOOLEAN :
          /\ entry = "update_docstrings_in_directory" => isdir(i)
          /\ ~(r /\ s)
          /\ ~h => (entry = "run" /\ i = Path(DirAt(0), FALSE)
                    /\ xd = << >> /\ xf = << >> /\ ~r /\ ~s)
          /\ argv = [ has_input |-> h, input |-> i,
                      replace_existing_docstrings |-> r,
                      skip_constructor_docstrings |-> s,
                      exclude_directories |-> xd, exclude_files |-> xf ]
    /\ disk0 = WalkDisk

InitFile ==
    /\ entry \in Entries \ { "update_docstrings_in_directory" }
    /\ apiKey \in Keys
    /\ \E r \in BOOLEAN, s \in BOOLEAN :
          argv = [ has_input |-> TRUE,
                   input |-> IF entry = "generate_docstring" THEN NoPath
                             ELSE Path(RootPy, FALSE),
                   replace_existing_docstrings |-> r,
                   skip_constructor_docstrings |-> s,
                   exclude_directories |-> << >>, exclude_files |-> << >> ]
    /\ \E c \in FileTexts : disk0 = [ WalkDisk EXCEPT ![RootPy] = c ]
    /\ entry = "generate_docstring" =>
          (disk0 = WalkDisk /\ ~argv.replace_existing_docstrings
           /\ ~argv.skip_constructor_docstrings)

\* A run entered below main has the parameters main would have passed.
Init ==
    /\ (InitWalk \/ InitFile)
    /\ disk = disk0
    /\ pc = StartOf(entry)
    /\ status = "running" /\ code = 0 /\ reason = "none"
    /\ replace_existing_docstrings =
          (entry # "run" /\ argv.replace_existing_docstrings)
    /\ skip_constructor_docstrings =
          (entry # "run" /\ argv.skip_constructor_docstrings)
    /\ exclude_directories =
          IF entry = "run" THEN << >>
          ELSE _extract_exclude_list(argv.exclude_directories)
    /\ exclude_files =
          IF entry = "run" THEN << >> ELSE _extract_exclude_list(argv.exclude_files)
    /\ arg = IF entry = "run" THEN NoPath ELSE argv.input
    /\ stack = << >>
    /\ file = NoPath
    /\ fReplace = (entry = "update_docstrings_in_file" /\ argv.replace_existing_docstrings)
    /\ fSkip = (entry = "update_docstrings_in_file" /\ argv.skip_constructor_docstrings)
    /\ tree = << >> /\ nodes = << >> /\ idx = 0
    /\ retries = 0 /\ attempts = 0 /\ message = NoMessage /\ docstring = << >>
    /\ calls = IF entry = "update_docstrings_in_file"
               THEN SetToBag({ [ file |-> argv.input,
                                 replace |-> argv.replace_existing_docstrings,
                                 skip |-> argv.skip_constructor_docstrings ] })
               ELSE EmptyBag
    /\ apiLog = { }
    /\ phase = [ f \in Files |-> "idle" ]


(***************************************************************************)
(* Control transfers.                                                      *)
(***************************************************************************)
Goto(l) == pc' = l /\ UNCHANGED outcome

\* sys.exit(n)
Exit(n, why) == pc' = "done" /\ status' = "exit" /\ code' = n /\ reason' = why

\* An exception nothing catches.
Raise(why) == pc' = "done" /\ status' = "raised" /\ code' = code /\ reason' = why

\* Line 373: the status the interpreter ends with once run() is over: the
\* SystemExit code, 1 for an exception nothing caught, 0 otherwise.
ProcessExitCode ==
    IF status = "exit" THEN code ELSE IF status = "raised" THEN 1 ELSE 0

\* The outermost call returns.
Finish == pc' = "done" /\ status' = "returned" /\ UNCHANGED << code, reason >>

\* update_docstrings_in_file or update_docstrings_in_directory returns to
\* the loop of the directory that called it, or to the start of the run.
ReturnToCaller(stk) == IF stk = << >> THEN Finish ELSE Goto("walk")

\* The call made without await: the coroutine is created and never run,
\* and the caller goes on.
CallFileDetached(path, replace, skip) ==
    /\ ReturnToCaller(stack)
    /\ arg' = path
    /\ fReplace' = replace
    /\ fSkip' = skip
    /\ calls' = calls (+) SetToBag({ [ file |-> path, replace |-> replace, skip |-> skip ] })

\* await update_docstrings_in_file(path, replace, skip)
CallFile(path, replace, skip) ==
    /\ Goto("update_docstrings_in_file")
    /\ arg' = path
    /\ fReplace' = replace
    /\ fSkip' = skip
    /\ calls' = calls (+) SetToBag({ [ file |-> path, replace |-> replace, skip |-> skip ] })

\* await update_docstrings_in_directory(path, ...)
CallDirectory(path) ==
    /\ Goto("update_docstrings_in_directory")
    /\ arg' = path
    /\ UNCHANGED << fReplace, fSkip, calls >>

(***************************************************************************)
(* run and main, lines 338-356 and 373.                                    *)
(***************************************************************************)
main ==
    /\ pc = "main"
    /\ IF ~Truthy(apiKey)
       THEN Exit(1, "no_key") /\ UNCHANGED << params, arg >>
       ELSE IF ~argv.has_input
       THEN Exit(2, "usage") /\ UNCHANGED << params, arg >>
       ELSE /\ Goto("update_docstrings")
            /\ arg' = argv.input
            /\ replace_existing_docstrings' = argv.replace_existing_docstrings
            /\ skip_constructor_docstrings' = argv.skip_constructor_docstrings
            /\ exclude_directories' = _extract_exclude_list(argv.exclude_directories)
            /\ exclude_files' = _extract_exclude_list(argv.exclude_files)
    /\ UNCHANGED << inputs, phase, disk, fReplace, fSkip, calls, stack, fileVars, genVars >>

(***************************************************************************)
(* update_docstrings, lines 284-299.                                       *)
(***************************************************************************)
InputFileExcluded(p, xfiles) == In(basename(p), xfiles)

InputDirectoryExcluded(p, xdirs) == In(basename(p), xdirs)

update_docstrings ==
    /\ pc = "update_docstrings"
    /\ IF isfile(arg) /\ endswith_py(arg)
       THEN IF InputFileExcluded(arg, exclude_files)
            THEN Finish /\ UNCHANGED callee
            ELSE CallFile(arg, replace_existing_docstrings, skip_constructor_docstrings)
       ELSE IF isdir(arg)
       THEN IF InputDirectoryExcluded(arg, exclude_directories)
            THEN Finish /\ UNCHANGED callee
            ELSE CallDirectory(arg)
       ELSE Finish /\ UNCHANGED callee
    /\ UNCHANGED << inputs, phase, disk, params, stack, fileVars, genVars >>

(***************************************************************************)
(* update_docstrings_in_directory, lines 239-256.                          *)
(***************************************************************************)
Top == stack[Len(stack)]

\* Line 239: os.listdir, whose order is arbitrary: the loop takes the
\* entries left in any order.
enter_directory ==
    /\ pc = "update_docstrings_in_directory"
    /\ stack' = Append(stack, [ dir |-> arg, todo |-> listdir(arg) ])
    /\ Goto("walk")
    /\ UNCHANGED << inputs, phase, disk, params, callee, fileVars, genVars >>

\* The test without its suffix part: any regular file passes.
IsAnyFile(full_path) == isfile(full_path)

\* Line 241.
IsSourceFile(full_path) == isfile(full_path) /\ endswith_py(full_path)

\* Line 242.
FileExcluded(name, xfiles) == In(basename(Path(<< name >>, FALSE)), xfiles)

\* The directory's name looked up in the list of excluded files.
DirectoryExcludedAsFile(full_path, xdirs) == In(basename(full_path), exclude_files)

\* Line 248.
DirectoryExcluded(full_path, xdirs) == In(basename(full_path), xdirs)

\* One iteration of the loop, lines 240-256.
visit_entry ==
    /\ pc = "walk"
    /\ \E name \in Top.todo :
          LET full_path == join(Top.dir, name)
          IN  /\ stack' = [ stack EXCEPT ![Len(stack)].todo = @ \ { name } ]
              /\ IF IsSourceFile(full_path)
                 THEN IF FileExcluded(name, exclude_files)
                      THEN Goto("walk") /\ UNCHANGED callee
                      ELSE CallFile(full_path, replace_existing_docstrings,
                                    skip_constructor_docstrings)
                 ELSE IF isdir(full_path)
                 THEN IF DirectoryExcluded(full_path, exclude_directories)
                      THEN Goto("walk") /\ UNCHANGED callee
                      ELSE CallDirectory(full_path)
                 ELSE Goto("walk") /\ UNCHANGED callee
    /\ UNCHANGED << inputs, phase, disk, params, fileVars, genVars >>

\* The loop is over: the call returns.
leave_directory ==
    /\ pc = "walk"
    /\ Top.todo = { }
    /\ stack' = SubSeq(stack, 1, Len(stack) - 1)
    /\ ReturnToCaller(stack')
    /\ UNCHANGED << inputs, phase, disk, params, callee, fileVars, genVars >>


(***************************************************************************)
(* update_docstrings_in_file, lines 159-206.                               *)
(***************************************************************************)
\* Lines 159-172: read and parse.
read_file ==
    /\ pc = "update_docstrings_in_file"
    /\ file' = arg
    /\ LET file_contents ==
               IF StartsWith(arg.parts, BASE_DIR) THEN disk[arg.parts] ELSE EmptyText
       IN  IF file_contents = EmptyText
           THEN ReturnToCaller(stack) /\ tree' = << >> /\ nodes' = << >> /\ idx' = 0
           ELSE IF ~Parses(file_contents)
           THEN Raise("parser") /\ tree' = << >> /\ nodes' = << >> /\ idx' = 0
           ELSE /\ tree' = file_contents
                /\ nodes' = FunctionNodes(file_contents)
                /\ idx' = 1
                /\ Goto("node")
    /\ phase' = [ phase EXCEPT ![arg.parts] =
                    IF StartsWith(arg.parts, BASE_DIR) /\ disk[arg.parts] # EmptyText
                    THEN "read" ELSE "done" ]
    /\ UNCHANGED << inputs, disk, params, callee, stack, genVars >>

\* The constructor test taken after the doc comment test: a constructor
\* that has a doc comment is not skipped.
SkipsUndocumentedConstructor(node, skip) ==
    IsFunction(node) /\ node.name = "__init__" /\ skip /\ ~has_docstring(node)

\* Lines 174-179.
SkipsConstructor(node, skip) == IsFunction(node) /\ node.name = "__init__" /\ skip

\* The doc comment test negated.
KeepsUndocumented(node, replace) == ~replace /\ ~has_docstring(node)

\* Line 185.
KeepsExisting(node, replace) == ~replace /\ has_docstring(node)

\* Line 188: node.body.pop(0)
PopDocstring(t, n) == [ t EXCEPT ![n].body = Tail(@) ]

\* Lines 174-193: one function node, up to the call of generate_docstring.
visit_node ==
    /\ pc = "node"
    /\ idx <= Len(nodes)
    /\ LET n == nodes[idx]
           node == tree[n]
       IN  IF SkipsConstructor(node, fSkip)
           THEN Goto("node") /\ idx' = idx + 1 /\ tree' = tree
           ELSE IF KeepsExisting(node, fReplace)
           THEN Goto("node") /\ idx' = idx + 1 /\ tree' = tree
           ELSE /\ tree' = IF has_docstring(node) THEN PopDocstring(tree, n) ELSE tree
                /\ idx' = idx
                /\ Goto("generate_docstring")
    /\ UNCHANGED << inputs, phase, disk, params, callee, stack, file, nodes, genVars >>

\* Lines 196-202: the doc comment spliced in for a returned docstring.
NewDocstring(d) == Doc(NL \o Remove(d, DQ3) \o NL)

InsertDocstring(t, n, d) == [ t EXCEPT ![n].body = << NewDocstring(d) >> \o @ ]

\* Lines 195-202.
insert_docstring ==
    /\ pc = "insert"
    /\ tree' = IF docstring # << >> THEN InsertDocstring(tree, nodes[idx], docstring)
               ELSE tree
    /\ idx' = idx + 1
    /\ message' = NoMessage
    /\ Goto("node")
    /\ UNCHANGED << inputs, phase, disk, params, callee, stack, file, nodes,
                    retries, attempts, docstring, apiLog >>

\* Line 203: open(file, "w") empties the file.
open_for_write ==
    /\ pc = "node"
    /\ idx > Len(nodes)
    /\ disk' = [ disk EXCEPT ![file.parts] = EmptyText ]
    /\ Goto("write")
    /\ phase' = [ phase EXCEPT ![file.parts] = "opened" ]
    /\ UNCHANGED << inputs, params, callee, stack, fileVars, genVars >>

\* Lines 204-206: serialize, reformat, write.
write_source ==
    /\ pc = "write"
    /\ IF Formats(tree)
       THEN disk' = [ disk EXCEPT ![file.parts] = tree ] /\ ReturnToCaller(stack)
       ELSE disk' = disk /\ Raise("formatter")
    /\ phase' = [ phase EXCEPT ![file.parts] = IF Formats(tree) THEN "done" ELSE @ ]
    /\ UNCHANGED << inputs, params, callee, stack, fileVars, genVars >>

(***************************************************************************)
(* generate_docstring, lines 80-137.                                       *)
(***************************************************************************)
TestDocstring ==
    << "T", "e", "s", "t", " ", "d", "o", "c", "s", "t", "r", "i", "n", "g" >>

\* The texts the text-generation call may answer with: bare, padded (a
\* leading space, a CRLF line end),
\* wrapped in either triple quote, and fenced as a code block.
ResponseTexts ==
    { TestDocstring,
      << " " >> \o TestDocstring \o << "\r", "\n" >>,
      DQ3 \o TestDocstring \o DQ3,
      SQ3 \o NL \o TestDocstring \o NL \o SQ3,
      FENCE_PY \o NL \o DQ3 \o TestDocstring \o DQ3 \o NL \o FENCE }

\* How client.messages.create may end.
Responses ==
    { [ kind |-> "text", text |-> t ] : t \in ResponseTexts }
    \cup { [ kind |-> k, text |-> << >> ] : k \in { "no_content", "rate_limit", "error" } }

\* Lines 80-104.
generate_docstring ==
    /\ pc = "generate_docstring"
    /\ IF ~Truthy(apiKey)
       THEN Exit(1, "no_key") /\ UNCHANGED << retries, attempts, message >>
       ELSE Goto("create") /\ retries' = 0 /\ attempts' = 0 /\ message' = NoMessage
    /\ UNCHANGED << inputs, phase, disk, params, callee, stack, fileVars, docstring, apiLog >>

\* generate_docstring returns to update_docstrings_in_file, or to the start
\* of the run.
ReturnDocstring(d) ==
    /\ docstring' = d
    /\ IF entry = "generate_docstring" THEN Finish ELSE Goto("insert")

\* The loop condition off by one: a further call after max_retries failures.
MayRetryInclusive(n) == n <= max_retries

\* The loop condition, line 105.
MayRetry(n) == n < max_retries

\* Lines 105-131: one text-generation call and what follows its answer.
create_message ==
    /\ pc = "create"
    /\ MayRetry(retries)
    /\ attempts' = attempts + 1
    /\ apiLog' = apiLog \cup { [ file |-> file, node |-> IF idx = 0 THEN 0 ELSE nodes[idx] ] }
    /\ \E r \in Responses :
          /\ message' = r
          /\ CASE r.kind = "text" ->
                    ReturnDocstring(FinalDocstring(r.text)) /\ retries' = retries
               [] r.kind = "no_content" ->
                    ReturnDocstring(<< >>) /\ retries' = retries
               [] r.kind = "rate_limit" ->
                    Goto("create") /\ retries' = retries + 1 /\ docstring' = docstring
               [] r.kind = "error" ->
                    Raise("api") /\ retries' = retries /\ docstring' = docstring
    /\ UNCHANGED << inputs, phase, disk, params, callee, stack, fileVars >>

\* Giving up with sys.exit(0).
give_up_with_zero ==
    /\ pc = "create"
    /\ ~MayRetry(retries)
    /\ Exit(0, "retries")
    /\ UNCHANGED << inputs, phase, disk, params, callee, stack, fileVars, genVars >>

\* Lines 132-137.
give_up ==
    /\ pc = "create"
    /\ ~MayRetry(retries)
    /\ IF retries = max_retries THEN Exit(1, "retries") ELSE ReturnDocstring(<< >>)
    /\ IF retries = max_retries THEN docstring' = docstring ELSE TRUE
    /\ UNCHANGED << inputs, phase, disk, params, callee, stack, fileVars,
                    retries, attempts, message, apiLog >>

Next ==
    \/ main
    \/ update_docstrings
    \/ enter_directory
    \/ visit_entry
    \/ leave_directory
    \/ read_file
    \/ visit_node
    \/ insert_docstring
    \/ open_for_write
    \/ write_source
    \/ generate_docstring
    \/ create_message
    \/ give_up

Spec == Init /\ [][Next]_vars

\* One thread runs the program to its end: no step of it waits for ever
\* (the backoff sleep is finite, the calls awaited return or raise).
FairSpec == Spec /\ WF_vars(Next)


(***************************************************************************)
(* Properties.                                                             *)
(***************************************************************************)
Done == pc = "done"

Answered == message.kind \in { "text", "no_content" }

\* C1: generate_docstring makes at most 5 text-generation calls; after 5
\* rate-limit answers in a row it makes no further call and exits with code
\* 1; when a call is answered, that answer's result is returned and the run
\* does not exit.
C1_BoundedRetry ==
    /\ attempts <= 5
    /\ retries >= 5 =>
          \/ pc = "create" /\ status = "running" /\ attempts = 5
          \/ Done /\ status = "exit" /\ code = 1 /\ reason = "retries"
    /\ reason = "retries" => retries = 5 /\ attempts = 5 /\ ~Answered
    /\ Answered =>
          /\ status # "exit"
          /\ attempts <= 5
          /\ attempts = retries + 1
          /\ docstring = IF message.kind = "text" THEN FinalDocstring(message.text)
                         ELSE << >>
          /\ entry = "generate_docstring" => Done /\ status = "returned"

\* Five rate-limit answers in a row have ended the run.
C1_Witness == Done /\ status = "exit" /\ reason = "retries" /\ attempts = 5

\* C6: with the credential unset or empty, a run that starts at main or at
\* generate_docstring itself makes no text-generation call, writes no file,
\* and ends by exiting with code 1.
C6_MissingKeyExits ==
    (~(apiKey.set /\ apiKey.value # << >>) /\ entry \in { "run", "generate_docstring" }) =>
        /\ apiLog = { }
        /\ attempts = 0
        /\ disk = disk0
        /\ calls = EmptyBag
        /\ pc \in { "main", "generate_docstring", "done" }
        /\ Done => status = "exit" /\ code = 1 /\ reason = "no_key"

\* The credential is set but empty, and generate_docstring has exited.
C6_Witness ==
    /\ Done /\ entry = "generate_docstring"
    /\ apiKey.set /\ apiKey.value = << >>
    /\ status = "exit"

\* C7 as stated: a run started by run() ends with exit code 1 exactly when
\* the credential is missing or the retries are exhausted, and with 0 in
\* every other case.
C7_OneOnlyForKeyOrRetries ==
    (Done /\ entry = "run") =>
        ProcessExitCode = IF reason \in { "no_key", "retries" } THEN 1 ELSE 0

\* C7 amended: the exit code is 1 when the credential is missing, the
\* retries are exhausted, or an error of the text-generation call, the
\* parser or the formatter goes uncaught; 2 when the command line lacks the
\* input path; 0 exactly when the run completes.
C7_ExitCodes ==
    (Done /\ entry = "run") =>
        /\ ProcessExitCode =
              CASE reason \in { "no_key", "retries", "api", "parser", "formatter" } -> 1
                [] reason = "usage" -> 2
                [] OTHER -> 0
        /\ reason = "none" <=> status = "returned"
        /\ status = "raised" <=> reason \in { "api", "parser", "formatter" }

\* A run started by run() has ended on an uncaught formatter error.
C7_Witness == Done /\ entry = "run" /\ status = "raised" /\ reason = "formatter"

\* C9 as stated: a successful call's text is returned as it is, with
\* nothing around it.
C9_ReturnsResponseText ==
    (Done /\ entry = "generate_docstring" /\ status = "returned"
     /\ message = [ kind |-> "text", text |-> TestDocstring ]) =>
        docstring = TestDocstring


\* The update_docstrings_in_file calls made so far.
Called == BagToSet(calls)

\* File f lies below directory root, at any depth.
Below(root, f) == Len(f) > Len(root) /\ SubSeq(f, 1, Len(root)) = root

\* A directory strictly between root and f carries an excluded name.
ExcludedOnWay(root, f) ==
    \E k \in (Len(root) + 1)..(Len(f) - 1) : f[k] \in Range(exclude_directories)

\* The files a walk from root is to reach.
Wanted(root) ==
    { f \in Files : /\ Below(root, f)
                    /\ EndsWith(f[Len(f)], PY)
                    /\ f[Len(f)] \notin Range(exclude_files)
                    /\ ~ExcludedOnWay(root, f) }

\* C2 as stated: no file with an excluded base name is handed to
\* update_docstrings_in_file, nor any file under a directory with an
\* excluded base name, wherever on the file's path that directory is.
C2_NothingExcludedVisited ==
    entry \in { "run", "update_docstrings", "update_docstrings_in_directory" } =>
        \A c \in Called :
            /\ c.file.parts[Len(c.file.parts)] \notin Range(exclude_files)
            /\ \A k \in 1..(Len(c.file.parts) - 1) :
                   c.file.parts[k] \notin Range(exclude_directories)

\* C2 amended: no file with an excluded base name is handed to
\* update_docstrings_in_file, nor any file under an excluded directory that
\* the walk meets below its starting directory; update_docstrings also
\* makes no call at all when the text after the last separator of its input
\* directory is an excluded name.  The starting directory's own name and
\* the names above it are not looked at by update_docstrings_in_directory.
C2_ExcludedBelowStartSkipped ==
    entry \in { "run", "update_docstrings", "update_docstrings_in_directory" } =>
        /\ \A c \in Called :
              /\ c.file.parts[Len(c.file.parts)] \notin Range(exclude_files)
              /\ ~ExcludedOnWay(argv.input.parts, c.file.parts)
        /\ (/\ entry # "update_docstrings_in_directory"
            /\ argv.input.parts \in Dirs
            /\ ~argv.input.slash
            /\ argv.input.parts[Len(argv.input.parts)]
                  \in Range(_extract_exclude_list(argv.exclude_directories))) =>
                calls = EmptyBag /\ stack = << >>

\* A walk from the root directory has completed with the first directory
\* below it excluded and the root's own source file processed.
C2_Witness ==
    /\ Done /\ status = "returned" /\ entry = "update_docstrings"
    /\ argv.input = Path(DirAt(0), FALSE)
    /\ N_venv \in Range(exclude_directories)
    /\ Cardinality(Called) = 1

\* C8, safety: each call is the first for its file, is for a wanted file
\* and carries the flags given; once the walk has returned every wanted
\* file has had its call.
C8_EachWantedFileOnce ==
    entry = "update_docstrings_in_directory" =>
        /\ \A c \in Called :
              /\ calls[c] = 1
              /\ ~c.file.slash
              /\ c.file.parts \in Wanted(argv.input.parts)
              /\ c.replace = argv.replace_existing_docstrings
              /\ c.skip = argv.skip_constructor_docstrings
        /\ (Done /\ status = "returned") =>
              \A f \in Wanted(argv.input.parts) :
                  [ file |-> Path(f, FALSE),
                    replace |-> argv.replace_existing_docstrings,
                    skip |-> argv.skip_constructor_docstrings ] \in Called

\* C8: update_docstrings_in_directory calls update_docstrings_in_file once,
\* with the flags given, for each source file below the directory that is
\* not excluded by name, for no other file, and the walk comes to an end.
C8_WalkVisitsAllOnce == []C8_EachWantedFileOnce /\ <>Done

\* A walk of the whole tree has returned with every source file processed.
C8_Witness ==
    /\ Done /\ status = "returned" /\ entry = "update_docstrings_in_directory"
    /\ argv.input.parts = DirAt(0)
    /\ exclude_directories = << >> /\ exclude_files = << >>
    /\ Cardinality(Called) = Cardinality(PyFiles)
    /\ Cardinality(PyFiles) >= 3


\* The file in hand has been read and parsed; tree0 is what was read.
Loaded == tree # << >>

tree0 == disk0[file.parts]

\* The loop over the function nodes of the file in hand is over.
FileProcessed == Loaded /\ idx > Len(nodes)

Documented(t) == { n \in 1..Len(t) : IsFunction(t[n]) /\ has_docstring(t[n]) }

Constructors(t) == { n \in 1..Len(t) : IsFunction(t[n]) /\ t[n].name = "__init__" }

\* The doc comments that can be spliced in for an answered call.
GeneratedDocs == { NewDocstring(FinalDocstring(t)) : t \in ResponseTexts }

\* C3 as stated: with replace_existing_docstrings false a function that has
\* a doc comment keeps its whole body, nested definitions included, keeps
\* its doc comment, and has no text-generation call made for it.
C3_DocumentedUntouchedDeep ==
    (Loaded /\ ~fReplace) =>
        \A n \in Documented(tree0) :
            /\ Expand(tree, n) = Expand(tree0, n)
            /\ [ file |-> file, node |-> n ] \notin apiLog

\* C3 amended: with replace_existing_docstrings false a function that has
\* a doc comment keeps its own statement list, its doc comment first, and
\* has no text-generation call made for it; a function defined inside it is
\* processed as a function of its own.
C3_DocumentedUntouched ==
    (Loaded /\ ~fReplace) =>
        \A n \in Documented(tree0) :
            /\ tree[n] = tree0[n]
            /\ [ file |-> file, node |-> n ] \notin apiLog

\* A file holding a documented function has been rewritten without the
\* replace flag, another function of it having received a doc comment.
C3_Witness ==
    /\ Done /\ status = "returned" /\ FileProcessed /\ ~fReplace
    /\ Documented(tree0) # { }
    /\ \E m \in 1..Len(tree) : m \notin Documented(tree0) /\ m \in Documented(tree)
    /\ disk[file.parts] = tree

\* C4 as stated: with replace_existing_docstrings true, once the file is
\* processed every documented function that is not a skipped constructor
\* starts with a newly generated doc comment in place of the old one.
C4_OldDocReplaced ==
    (FileProcessed /\ fReplace) =>
        \A n \in Documented(tree0) :
            ~(tree0[n].name = "__init__" /\ fSkip) =>
                /\ tree[n].body # << >>
                /\ tree[n].body[1] \in GeneratedDocs
                /\ Tail(tree[n].body) = Tail(tree0[n].body)

\* C5 as stated: with skip_constructor_docstrings true a function named
\* __init__ keeps its whole body, nested definitions included, and has no
\* text-generation call made for it.
C5_ConstructorUntouchedDeep ==
    (Loaded /\ fSkip) =>
        \A n \in Constructors(tree0) :
            /\ Expand(tree, n) = Expand(tree0, n)
            /\ [ file |-> file, node |-> n ] \notin apiLog

\* C5 amended: with skip_constructor_docstrings true a function named
\* __init__ keeps its own statement list, no doc comment removed from it or
\* inserted into it, and has no text-generation call made for it, whatever
\* the replace flag; a function defined inside it is processed as a
\* function of its own.
C5_ConstructorUntouched ==
    (Loaded /\ fSkip) =>
        \A n \in Constructors(tree0) :
            /\ tree[n] = tree0[n]
            /\ [ file |-> file, node |-> n ] \notin apiLog

\* A file holding a documented constructor has been rewritten with both
\* flags set, another function of it having received a doc comment.
C5_Witness ==
    /\ Done /\ status = "returned" /\ FileProcessed /\ fSkip /\ fReplace
    /\ Constructors(tree0) \cap Documented(tree0) # { }
    /\ apiLog # { }
    /\ disk[file.parts] = tree

\* C10 as stated: when the tree is serialized every function node has at
\* least one statement in its body.
C10_NoEmptyBodyAtWrite ==
    pc = "write" => \A n \in 1..Len(tree) : IsFunction(tree[n]) => tree[n].body # << >>

(***************************************************************************)
(* The order of reads, text-generation calls and writes.                   *)
(***************************************************************************)
\* The files read and not yet returned from.
InProgress == { f \in Files : phase[f] \in { "read", "opened" } }

\* Control is outside update_docstrings_in_file's body.
OutsideFile ==
    pc \in { "main", "update_docstrings", "update_docstrings_in_directory",
             "walk", "update_docstrings_in_file" }

\* Control is in generate_docstring, called for a function of a file.
Generating ==
    /\ pc \in { "generate_docstring", "create", "insert" }
    /\ entry # "generate_docstring"

C11_OneFileInHand ==
    /\ Cardinality(InProgress) <= 1
    /\ InProgress \subseteq { file.parts }
    /\ OutsideFile => InProgress = { }
    /\ pc = "walk" => \A c \in Called : phase[c.file.parts] = "done"
    /\ (Done /\ status = "returned") =>
          \A c \in Called : c.file.parts \in Files => phase[c.file.parts] = "done"
    /\ Generating => phase[file.parts] = "read" /\ disk[file.parts] = disk0[file.parts]
    /\ pc = "write" => phase[file.parts] = "opened"
    /\ \A e \in apiLog : e.file.parts \in Files => phase[e.file.parts] # "idle"

C11_Step ==
    /\ (attempts' = attempts + 1 /\ entry # "generate_docstring") =>
          /\ phase[file.parts] = "read"
          /\ phase' = phase
          /\ disk' = disk
    /\ \A f \in Files :
          phase'[f] # phase[f] =>
             /\ \A g \in Files \ { f } : phase[g] \in { "idle", "done" } /\ phase'[g] = phase[g]
             /\ << phase[f], phase'[f] >> \in
                   { << "idle", "read" >>, << "idle", "done" >>,
                     << "read", "opened" >>, << "opened", "done" >> }
             /\ phase[f] = "idle" => \A e \in apiLog : e.file.parts # f
    /\ \A f \in Files : disk'[f] # disk[f] => phase'[f] \in { "opened", "done" }

\* C11: files are processed one at a time and in sequence: a file's read
\* comes before every text-generation call made for its functions, these
\* calls come before the file is opened for writing and written, a file is
\* returned from before the walk goes on to the next entry, and at no time
\* is more than one file between its read and its return; a
\* text-generation call is one step of the single thread of control, so no
\* two are ever under way together.
C11_OneFileAtATime == [] C11_OneFileInHand /\ [][C11_Step]_vars

\* A walk has returned after rewriting two files, each after
\* text-generation calls made for it.
C11_Witness ==
    /\ Done /\ status = "returned" /\ entry = "update_docstrings_in_directory"
    /\ \E f, g \in Files :
          /\ f # g
          /\ \A h \in { f, g } :
                /\ phase[h] = "done"
                /\ disk[h] # disk0[h]
                /\ \E e \in apiLog : e.file.parts = h

(***************************************************************************)
(* What is left on disk when a file's processing is cut short.             *)
(***************************************************************************)
\* C12 as stated: when the processing of a file stops early, the file on
\* disk still holds its original content.
C12_OriginalKeptOnEarlyStop ==
    (Done /\ status # "returned") =>
        \A f \in Files : phase[f] # "done" => disk[f] = disk0[f]

=============================================================================
